---------------------------- MODULE Spec2Model ----------------------------
(***************************************************************************)
(* Model of src/src/platform/wait_timeout_thread_untraced.c:               *)
(* wait_timeout_untraced(pid, timeout_ms) races a Waiter thread            *)
(* (wait_for_process, blocked in waitid(WNOWAIT | WEXITED)) against a      *)
(* pthread_cond_timedwait with an absolute CLOCK_MONOTONIC deadline.       *)
(*                                                                         *)
(* One behaviour is one call.  The Racer (the calling thread) and the      *)
(* Waiter are two program counters, rpc and wpc; every action is one       *)
(* library call or one straight-line block of the source.  The target      *)
(* process, the passing of time and the failures of library calls are the  *)
(* environment.                                                            *)
(*                                                                         *)
(* time_t is modelled for the build where it is a 32 bit signed int (one   *)
(* of the branches of get_max_time_t), so that the overflow test of the    *)
(* deadline is computed on the real numbers.                               *)
(***************************************************************************)
EXTENDS Integers, FiniteSets, Sequences, TLC

\* ---------------------------------------------------------------- bounds
\* Largest timeout (ms) among the inputs tried.
MaxTimeoutMs == 1500
\* The clock readings tried reach from get_max_time_t - NearMax up to it.
NearMax == 1

\* ------------------------------------------------------ program constants
ETIMEDOUT == 110
EINVAL == 22
MS_PER_SEC == 1000
NSEC_PER_MS == 1000000
NSEC_PER_SEC == 1000000000

\* get_max_time_t(), signed int branch of the _Generic: INT_MAX.
get_max_time_t == 2147483647

VARIABLES
    pid_ok,            \* the pid names a child waitid can wait for
    proc,              \* target process: "running", "zombie" (terminated,
                       \* not collected) or "reaped"
    timeout_ms,        \* argument of the call
    now,               \* what clock_gettime(CLOCK_MONOTONIC) reads
    ts,                \* struct timespec ts of internal_4 (the deadline)
    armed,             \* the deadline has been written to ts
    expired,           \* the monotonic clock has reached the deadline
    rpc,               \* position of the Racer
    wpc,               \* position / life cycle of the Waiter thread
    mutex_st,          \* pthread_mutex_t mutex: "uninit", "init", "destroyed"
    mutex_owner,       \* "none", "racer", "waiter"
    attr_st,           \* pthread_condattr_t attr
    cond_st,           \* proc_info.cond
    wake,              \* what ends the Racer's timed wait: 0 or ETIMEDOUT
    return_val,        \* proc_info.return_val
    ret,               \* int ret of internal_3
    result,            \* value returned by wait_timeout_untraced
    errno,             \* errno of the calling thread
    cancel_req,        \* a cancellation request is pending on the Waiter
    \* history variables (observations, never read by the program)
    fail,              \* which setup step failed, "none" if none
    rv_writes,         \* assignments of the Waiter to return_val
    signals,           \* calls of pthread_cond_signal
    rpc_at_signal,     \* rpc at the moment pthread_cond_signal was called
    cancels,           \* calls of pthread_cancel
    proc_at_deadline,  \* proc at the moment the deadline elapsed
    wpc_at_deadline    \* wpc at the moment the deadline elapsed

vars == << pid_ok, proc, timeout_ms, now, ts, armed, expired, rpc, wpc,
           mutex_st, mutex_owner, attr_st, cond_st, wake, return_val, ret,
           result, errno, cancel_req, fail, rv_writes, signals, rpc_at_signal,
           cancels, proc_at_deadline, wpc_at_deadline >>

\* groups used in UNCHANGED
inputs == << pid_ok, timeout_ms, now >>
deadline_hist == << proc_at_deadline, wpc_at_deadline >>
waiter_hist == << rv_writes, signals, rpc_at_signal >>

\* ------------------------------------------------------------- inputs
TimeoutValues == {0, 1, MaxTimeoutMs}
NowSecValues == {0} \cup {get_max_time_t - k : k \in 0 .. NearMax}
NowNsecValues == {0, NSEC_PER_SEC - 1}

\* ------------------------------------------- deadline arithmetic (70-89)
\* line 77: long nano_seconds = ts.tv_nsec + (timeout_ms % 1000) * 1000000
nano_sum(t, ms) == t.tv_nsec + ((ms % MS_PER_SEC) * NSEC_PER_MS)

\* Mutant of seconds: the carry of the nanoseconds (line 80) is dropped.
seconds_without_carry(t, ms) == ms \div MS_PER_SEC

\* lines 75 and 80: seconds = timeout_ms / 1000 + nano_seconds / 1000000000
seconds(t, ms) == (ms \div MS_PER_SEC) + (nano_sum(t, ms) \div NSEC_PER_SEC)

\* line 81: nano_seconds = nano_seconds % 1000000000
nano_seconds(t, ms) == nano_sum(t, ms) % NSEC_PER_SEC

\* Mutant of the overflow test: <= in place of <.
deadline_overflows_off_by_one(t, ms) ==
    get_max_time_t - seconds(t, ms) <= t.tv_sec

\* line 84: get_max_time_t() - seconds < ts.tv_sec
deadline_overflows(t, ms) == get_max_time_t - seconds(t, ms) < t.tv_sec

\* lines 88-89: ts.tv_sec += seconds; ts.tv_nsec = nano_seconds
deadline(t, ms) ==
    [tv_sec |-> t.tv_sec + seconds(t, ms), tv_nsec |-> nano_seconds(t, ms)]

\* ---------------------------------------------------------------- Init
Init ==
    /\ pid_ok \in BOOLEAN
    /\ proc \in {"running", "zombie"}
    /\ timeout_ms \in TimeoutValues
    /\ now \in [tv_sec : NowSecValues, tv_nsec : NowNsecValues]
    /\ ts = [tv_sec |-> 0, tv_nsec |-> 0]
    /\ armed = FALSE
    /\ expired = FALSE
    /\ rpc = "mutex_init"
    /\ wpc = "none"
    /\ mutex_st = "uninit"
    /\ mutex_owner = "none"
    /\ attr_st = "uninit"
    /\ cond_st = "uninit"
    /\ wake = 0
    /\ return_val = -1
    /\ ret = 0
    /\ result = 0
    /\ errno = 0
    /\ cancel_req = FALSE
    /\ fail = "none"
    /\ rv_writes = 0
    /\ signals = 0
    /\ rpc_at_signal = "unset"
    /\ cancels = 0
    /\ proc_at_deadline = "unset"
    /\ wpc_at_deadline = "unset"


\* ------------------------------------------------------------- the Racer
\* line 180: pthread_mutex_init(&mutex, NULL); on failure return -1 (181)
wait_timeout_untraced_mutex_init ==
    /\ rpc = "mutex_init"
    /\ \/ /\ mutex_st' = "init"
          /\ rpc' = "condattr_init"
          /\ UNCHANGED << result, fail >>
       \/ /\ fail' = "mutex_init"
          /\ result' = -1
          /\ rpc' = "done"
          /\ UNCHANGED mutex_st
    /\ UNCHANGED << inputs, proc, ts, armed, expired, wpc, mutex_owner,
                    attr_st, cond_st, wake, return_val, ret, errno,
                    cancel_req, waiter_hist, cancels, deadline_hist >>

\* line 165: pthread_condattr_init(&attr); on failure return -1 (166)
wait_timeout_untraced_internal_1_condattr_init ==
    /\ rpc = "condattr_init"
    /\ \/ /\ attr_st' = "init"
          /\ rpc' = "setclock"
          /\ UNCHANGED << result, fail >>
       \/ /\ fail' = "condattr_init"
          /\ result' = -1
          /\ rpc' = "mutex_destroy"
          /\ UNCHANGED attr_st
    /\ UNCHANGED << inputs, proc, ts, armed, expired, wpc, mutex_st,
                    mutex_owner, cond_st, wake, return_val, ret, errno,
                    cancel_req, waiter_hist, cancels, deadline_hist >>

\* lines 141-148: proc_info.return_val = -1;
\* pthread_condattr_setclock(attr, CLOCK_MONOTONIC); on failure return -1
wait_timeout_untraced_internal_2_setclock ==
    /\ rpc = "setclock"
    /\ return_val' = -1
    /\ \/ /\ rpc' = "cond_init"
          /\ UNCHANGED << result, fail >>
       \/ /\ fail' = "setclock"
          /\ result' = -1
          /\ rpc' = "condattr_destroy"
    /\ UNCHANGED << inputs, proc, ts, armed, expired, wpc, mutex_st,
                    mutex_owner, attr_st, cond_st, wake, ret, errno,
                    cancel_req, waiter_hist, cancels, deadline_hist >>

\* line 150: pthread_cond_init(&proc_info.cond, attr); on failure return -1
wait_timeout_untraced_internal_2_cond_init ==
    /\ rpc = "cond_init"
    /\ \/ /\ cond_st' = "init"
          /\ rpc' = "create"
          /\ UNCHANGED << result, fail >>
       \/ /\ fail' = "cond_init"
          /\ result' = -1
          /\ rpc' = "condattr_destroy"
          /\ UNCHANGED cond_st
    /\ UNCHANGED << inputs, proc, ts, armed, expired, wpc, mutex_st,
                    mutex_owner, attr_st, wake, return_val, ret, errno,
                    cancel_req, waiter_hist, cancels, deadline_hist >>

\* line 103: pthread_create(&thread, NULL, wait_for_process, proc_info);
\* on failure return -1 (104)
wait_timeout_untraced_internal_3_create ==
    /\ rpc = "create"
    /\ \/ /\ wpc' = "waitid"
          /\ rpc' = "lock"
          /\ UNCHANGED << result, fail >>
       \/ /\ fail' = "create"
          /\ result' = -1
          /\ rpc' = "cond_destroy"
          /\ UNCHANGED wpc
    /\ UNCHANGED << inputs, proc, ts, armed, expired, mutex_st, mutex_owner,
                    attr_st, cond_st, wake, return_val, ret, errno,
                    cancel_req, waiter_hist, cancels, deadline_hist >>

\* line 109: pthread_mutex_lock(proc_info->mutex), blocks while it is held
wait_timeout_untraced_internal_3_lock ==
    /\ rpc = "lock"
    /\ mutex_owner = "none"
    /\ mutex_owner' = "racer"
    /\ rpc' = "deadline"
    /\ UNCHANGED << inputs, proc, ts, armed, expired, wpc, mutex_st, attr_st,
                    cond_st, wake, return_val, ret, result, errno,
                    cancel_req, fail, waiter_hist, cancels, deadline_hist >>

\* lines 70-89: read the clock (failure: return -1), compute the deadline,
\* return -1 if tv_sec would overflow, else write it to ts.  A timeout of 0
\* makes the deadline the clock reading itself: it has elapsed already.
wait_timeout_untraced_internal_4_deadline ==
    /\ rpc = "deadline"
    /\ \/ /\ fail' = "clock"
          /\ errno' = EINVAL
          /\ ret' = -1
          /\ rpc' = "unlock"
          /\ UNCHANGED << ts, armed, expired, deadline_hist >>
       \/ /\ deadline_overflows(now, timeout_ms)
          /\ fail' = "overflow"
          /\ ret' = -1
          /\ rpc' = "unlock"
          /\ UNCHANGED << ts, armed, expired, errno, deadline_hist >>
       \/ /\ ~deadline_overflows(now, timeout_ms)
          /\ ts' = deadline(now, timeout_ms)
          /\ armed' = TRUE
          /\ expired' = (deadline(now, timeout_ms) = now)
          /\ proc_at_deadline' =
                 IF deadline(now, timeout_ms) = now THEN proc ELSE "unset"
          /\ wpc_at_deadline' =
                 IF deadline(now, timeout_ms) = now THEN wpc ELSE "unset"
          /\ rpc' = "timedwait"
          /\ UNCHANGED << ret, errno, fail >>
    /\ UNCHANGED << inputs, proc, wpc, mutex_st, mutex_owner, attr_st,
                    cond_st, wake, return_val, result, cancel_req,
                    waiter_hist, cancels >>

\* line 91, entry of pthread_cond_timedwait: the mutex is released and the
\* Racer blocks on the condition variable; with the deadline already past
\* the wait ends with ETIMEDOUT at once (the mutex is still released and
\* reacquired).
wait_timeout_untraced_internal_4_timedwait ==
    /\ rpc = "timedwait"
    /\ mutex_owner' = "none"
    /\ IF expired
         THEN /\ wake' = ETIMEDOUT
              /\ rpc' = "cv_reacquire"
         ELSE /\ rpc' = "cv_wait"
              /\ UNCHANGED wake
    /\ UNCHANGED << inputs, proc, ts, armed, expired, wpc, mutex_st, attr_st,
                    cond_st, return_val, ret, result, errno, cancel_req,
                    fail, waiter_hist, cancels, deadline_hist >>

\* line 91: pthread_cond_timedwait may return 0 with no signal sent
\* (a spurious wakeup, which POSIX allows); the source does not loop on a
\* predicate, so the wait simply ends.
SpuriousWakeup ==
    /\ rpc = "cv_wait"
    /\ wake' = 0
    /\ rpc' = "cv_reacquire"
    /\ UNCHANGED << inputs, proc, ts, armed, expired, wpc, mutex_st,
                    mutex_owner, attr_st, cond_st, return_val, ret, result,
                    errno, cancel_req, fail, waiter_hist, cancels,
                    deadline_hist >>

\* lines 91-94, return of pthread_cond_timedwait: the mutex is reacquired
\* and the call returns 0 or ETIMEDOUT, which internal_4 returns into ret
\* (line 111).
wait_timeout_untraced_internal_4_return ==
    /\ rpc = "cv_reacquire"
    /\ mutex_owner = "none"
    /\ mutex_owner' = "racer"
    /\ ret' = wake
    /\ rpc' = "unlock"
    /\ UNCHANGED << inputs, proc, ts, armed, expired, wpc, mutex_st, attr_st,
                    cond_st, wake, return_val, result, errno, cancel_req,
                    fail, waiter_hist, cancels, deadline_hist >>

\* Mutant of the Racer's unlock: line 114 is skipped and the Racer goes on
\* to cancel and join with the mutex held.
wait_timeout_untraced_internal_3_unlock_missing ==
    /\ rpc = "unlock"
    /\ rpc' = "cancel"
    /\ UNCHANGED << inputs, proc, ts, armed, expired, wpc, mutex_st,
                    mutex_owner, attr_st, cond_st, wake, return_val, ret,
                    result, errno, cancel_req, fail, waiter_hist, cancels,
                    deadline_hist >>

\* line 114: pthread_mutex_unlock(proc_info->mutex)
wait_timeout_untraced_internal_3_unlock ==
    /\ rpc = "unlock"
    /\ mutex_owner' = "none"
    /\ rpc' = "cancel"
    /\ UNCHANGED << inputs, proc, ts, armed, expired, wpc, mutex_st, attr_st,
                    cond_st, wake, return_val, ret, result, errno,
                    cancel_req, fail, waiter_hist, cancels, deadline_hist >>

\* Mutant of the cancel step: pthread_cancel is called whatever ret is.
wait_timeout_untraced_internal_3_cancel_always ==
    /\ rpc = "cancel"
    /\ cancels' = cancels + 1
    /\ cancel_req' = (cancel_req \/ wpc \notin {"exited", "cancelled"})
    /\ rpc' = "join"
    /\ UNCHANGED << inputs, proc, ts, armed, expired, wpc, mutex_st,
                    mutex_owner, attr_st, cond_st, wake, return_val, ret,
                    result, errno, fail, waiter_hist, deadline_hist >>

\* lines 117-121: if (ret == ETIMEDOUT) pthread_cancel(thread).  Cancelling
\* a thread that has terminated has no effect.
wait_timeout_untraced_internal_3_cancel ==
    /\ rpc = "cancel"
    /\ IF ret = ETIMEDOUT
         THEN /\ cancels' = cancels + 1
              /\ cancel_req' = (cancel_req \/ wpc \notin {"exited", "cancelled"})
         ELSE UNCHANGED << cancels, cancel_req >>
    /\ rpc' = "join"
    /\ UNCHANGED << inputs, proc, ts, armed, expired, wpc, mutex_st,
                    mutex_owner, attr_st, cond_st, wake, return_val, ret,
                    result, errno, fail, waiter_hist, deadline_hist >>

\* Mutant of the join: the Waiter is joined only when the wait did not time
\* out (a cancelled thread is left unjoined).
wait_timeout_untraced_internal_3_join_unless_cancelled ==
    /\ rpc = "join"
    /\ IF ret = ETIMEDOUT
         THEN UNCHANGED wpc
         ELSE /\ wpc \in {"exited", "cancelled"}
              /\ wpc' = "joined"
    /\ rpc' = "result"
    /\ UNCHANGED << inputs, proc, ts, armed, expired, mutex_st, mutex_owner,
                    attr_st, cond_st, wake, return_val, ret, result, errno,
                    cancel_req, fail, waiter_hist, cancels, deadline_hist >>

\* Mutant of the join: the Racer does not wait for the Waiter to terminate
\* (the thread is left to itself, as if detached).
wait_timeout_untraced_internal_3_join_detached ==
    /\ rpc = "join"
    /\ rpc' = "result"
    /\ UNCHANGED << inputs, proc, ts, armed, expired, wpc, mutex_st,
                    mutex_owner, attr_st, cond_st, wake, return_val, ret,
                    result, errno, cancel_req, fail, waiter_hist, cancels,
                    deadline_hist >>

\* line 125: pthread_join(thread, NULL), blocks until the Waiter has
\* terminated
wait_timeout_untraced_internal_3_join ==
    /\ rpc = "join"
    /\ wpc \in {"exited", "cancelled"}
    /\ wpc' = "joined"
    /\ rpc' = "result"
    /\ UNCHANGED << inputs, proc, ts, armed, expired, mutex_st, mutex_owner,
                    attr_st, cond_st, wake, return_val, ret, result, errno,
                    cancel_req, fail, waiter_hist, cancels, deadline_hist >>

\* Mutant of the result step: after a timed-out wait the outcome of a Waiter
\* that succeeded in the meantime is returned instead of the timeout.
wait_timeout_untraced_internal_3_result_prefers_outcome ==
    /\ rpc = "result"
    /\ IF ret = ETIMEDOUT /\ return_val # 0
         THEN /\ errno' = ETIMEDOUT
              /\ result' = -1
         ELSE /\ result' = return_val
              /\ UNCHANGED errno
    /\ rpc' = "cond_destroy"
    /\ UNCHANGED << inputs, proc, ts, armed, expired, wpc, mutex_st,
                    mutex_owner, attr_st, cond_st, wake, return_val, ret,
                    cancel_req, fail, waiter_hist, cancels, deadline_hist >>

\* lines 127-134: ETIMEDOUT: errno = ETIMEDOUT, return -1;
\* otherwise return proc_info->return_val
wait_timeout_untraced_internal_3_result ==
    /\ rpc = "result"
    /\ IF ret = ETIMEDOUT
         THEN /\ errno' = ETIMEDOUT
              /\ result' = -1
         ELSE /\ result' = return_val
              /\ UNCHANGED errno
    /\ rpc' = "cond_destroy"
    /\ UNCHANGED << inputs, proc, ts, armed, expired, wpc, mutex_st,
                    mutex_owner, attr_st, cond_st, wake, return_val, ret,
                    cancel_req, fail, waiter_hist, cancels, deadline_hist >>

\* line 156: pthread_cond_destroy(&proc_info.cond)
wait_timeout_untraced_internal_2_cond_destroy ==
    /\ rpc = "cond_destroy"
    /\ cond_st' = "destroyed"
    /\ rpc' = "condattr_destroy"
    /\ UNCHANGED << inputs, proc, ts, armed, expired, wpc, mutex_st,
                    mutex_owner, attr_st, wake, return_val, ret, result,
                    errno, cancel_req, fail, waiter_hist, cancels,
                    deadline_hist >>

\* line 172: pthread_condattr_destroy(&attr)
wait_timeout_untraced_internal_1_condattr_destroy ==
    /\ rpc = "condattr_destroy"
    /\ attr_st' = "destroyed"
    /\ rpc' = "mutex_destroy"
    /\ UNCHANGED << inputs, proc, ts, armed, expired, wpc, mutex_st,
                    mutex_owner, cond_st, wake, return_val, ret, result,
                    errno, cancel_req, fail, waiter_hist, cancels,
                    deadline_hist >>

\* lines 186-188: pthread_mutex_destroy(&mutex); return result
wait_timeout_untraced_mutex_destroy ==
    /\ rpc = "mutex_destroy"
    /\ mutex_st' = "destroyed"
    /\ rpc' = "done"
    /\ UNCHANGED << inputs, proc, ts, armed, expired, wpc, mutex_owner,
                    attr_st, cond_st, wake, return_val, ret, result, errno,
                    cancel_req, fail, waiter_hist, cancels, deadline_hist >>

\* ------------------------------------------------------------ the Waiter
\* Mutant of the waitid step: WNOWAIT is missing, so a successful waitid
\* collects the child.
wait_for_process_waitid_reaping ==
    /\ wpc = "waitid"
    /\ \/ /\ ~pid_ok
          /\ return_val' = -1
          /\ UNCHANGED proc
       \/ /\ pid_ok
          /\ proc = "zombie"
          /\ return_val' = 0
          /\ proc' = "reaped"
    /\ rv_writes' = rv_writes + 1
    /\ wpc' = "lock"
    /\ UNCHANGED << inputs, ts, armed, expired, rpc, mutex_st,
                    mutex_owner, attr_st, cond_st, wake, ret, result, errno,
                    cancel_req, fail, signals, rpc_at_signal, cancels,
                    deadline_hist >>

\* Mutant of the Waiter's wait: waitid returns 0 for a child at once, whether
\* or not the child has terminated (as WNOHANG would).
wait_for_process_waitid_nohang ==
    /\ wpc = "waitid"
    /\ \/ /\ ~pid_ok
          /\ return_val' = -1
       \/ /\ pid_ok
          /\ return_val' = 0
    /\ rv_writes' = rv_writes + 1
    /\ wpc' = "lock"
    /\ UNCHANGED << inputs, proc, ts, armed, expired, rpc, mutex_st,
                    mutex_owner, attr_st, cond_st, wake, ret, result, errno,
                    cancel_req, fail, signals, rpc_at_signal, cancels,
                    deadline_hist >>

\* lines 29-33: waitid(P_PID, pid, &info, WNOWAIT | WEXITED) blocks until
\* the child has terminated and leaves it a zombie (WNOWAIT); it fails at
\* once on a pid that is no child of the caller.  return_val is assigned
\* before the mutex is locked.
wait_for_process_waitid ==
    /\ wpc = "waitid"
    /\ \/ /\ ~pid_ok
          /\ return_val' = -1
       \/ /\ pid_ok
          /\ proc = "zombie"
          /\ return_val' = 0
    /\ rv_writes' = rv_writes + 1
    /\ wpc' = "lock"
    /\ UNCHANGED << inputs, proc, ts, armed, expired, rpc, mutex_st,
                    mutex_owner, attr_st, cond_st, wake, ret, result, errno,
                    cancel_req, fail, signals, rpc_at_signal, cancels,
                    deadline_hist >>

\* Mutant of the cancellation: the request is acted on wherever the Waiter
\* is (as with asynchronous cancelability), also while it holds the mutex.
wait_for_process_cancelled_anywhere ==
    /\ wpc \in {"waitid", "lock", "signal", "unlock"}
    /\ cancel_req
    /\ wpc' = "cancelled"
    /\ UNCHANGED << inputs, proc, ts, armed, expired, rpc, mutex_st,
                    mutex_owner, attr_st, cond_st, wake, return_val, ret,
                    result, errno, cancel_req, fail, waiter_hist, cancels,
                    deadline_hist >>

\* line 29: waitid is a cancellation point: with a cancellation request
\* pending the Waiter terminates inside it and never reaches line 30.
\* No later call of the Waiter is a cancellation point.
wait_for_process_cancelled ==
    /\ wpc = "waitid"
    /\ cancel_req
    /\ wpc' = "cancelled"
    /\ UNCHANGED << inputs, proc, ts, armed, expired, rpc, mutex_st,
                    mutex_owner, attr_st, cond_st, wake, return_val, ret,
                    result, errno, cancel_req, fail, waiter_hist, cancels,
                    deadline_hist >>

\* line 39: pthread_mutex_lock(proc_info->mutex)
wait_for_process_lock ==
    /\ wpc = "lock"
    /\ mutex_owner = "none"
    /\ mutex_owner' = "waiter"
    /\ wpc' = "signal"
    /\ UNCHANGED << inputs, proc, ts, armed, expired, rpc, mutex_st, attr_st,
                    cond_st, wake, return_val, ret, result, errno,
                    cancel_req, fail, waiter_hist, cancels, deadline_hist >>

\* Mutant of the signal step: the Waiter assigns return_val once more, under
\* the mutex, before it signals.
wait_for_process_signal_rewriting ==
    /\ wpc = "signal"
    /\ rv_writes' = rv_writes + 1
    /\ signals' = signals + 1
    /\ rpc_at_signal' = rpc
    /\ IF rpc = "cv_wait"
         THEN /\ wake' = 0
              /\ rpc' = "cv_reacquire"
         ELSE UNCHANGED << wake, rpc >>
    /\ wpc' = "unlock"
    /\ UNCHANGED << inputs, proc, ts, armed, expired, mutex_st, mutex_owner,
                    attr_st, cond_st, return_val, ret, result, errno,
                    cancel_req, fail, cancels, deadline_hist >>

\* line 42: pthread_cond_signal(&proc_info->cond) wakes the Racer if it is
\* blocked on the condition variable; with no thread blocked the signal
\* has no effect and is not remembered.
wait_for_process_signal ==
    /\ wpc = "signal"
    /\ signals' = signals + 1
    /\ rpc_at_signal' = rpc
    /\ IF rpc = "cv_wait"
         THEN /\ wake' = 0
              /\ rpc' = "cv_reacquire"
         ELSE UNCHANGED << wake, rpc >>
    /\ wpc' = "unlock"
    /\ UNCHANGED << inputs, proc, ts, armed, expired, mutex_st, mutex_owner,
                    attr_st, cond_st, return_val, ret, result, errno,
                    cancel_req, fail, rv_writes, cancels, deadline_hist >>

\* lines 45-47: pthread_mutex_unlock(proc_info->mutex); return NULL
wait_for_process_unlock ==
    /\ wpc = "unlock"
    /\ mutex_owner' = "none"
    /\ wpc' = "exited"
    /\ UNCHANGED << inputs, proc, ts, armed, expired, rpc, mutex_st, attr_st,
                    cond_st, wake, return_val, ret, result, errno,
                    cancel_req, fail, waiter_hist, cancels, deadline_hist >>

\* ------------------------------------------------------- the environment
\* The target process terminates (it is the caller's to collect).
ProcExit ==
    /\ proc = "running"
    /\ proc' = "zombie"
    /\ UNCHANGED << inputs, ts, armed, expired, rpc, wpc, mutex_st,
                    mutex_owner, attr_st, cond_st, wake, return_val, ret,
                    result, errno, cancel_req, fail, waiter_hist, cancels,
                    deadline_hist >>

\* The monotonic clock reaches the deadline in ts.  A Racer blocked in
\* pthread_cond_timedwait (line 91) with no signal delivered yet ends its
\* wait with ETIMEDOUT.
DeadlineElapses ==
    /\ armed
    /\ ~expired
    /\ rpc # "done"
    /\ expired' = TRUE
    /\ proc_at_deadline' = proc
    /\ wpc_at_deadline' = wpc
    /\ IF rpc = "cv_wait"
         THEN /\ wake' = ETIMEDOUT
              /\ rpc' = "cv_reacquire"
         ELSE UNCHANGED << wake, rpc >>
    /\ UNCHANGED << inputs, proc, ts, armed, wpc, mutex_st, mutex_owner,
                    attr_st, cond_st, return_val, ret, result, errno,
                    cancel_req, fail, waiter_hist, cancels >>

\* ----------------------------------------------------- the specification
Racer ==
    \/ wait_timeout_untraced_mutex_init
    \/ wait_timeout_untraced_internal_1_condattr_init
    \/ wait_timeout_untraced_internal_2_setclock
    \/ wait_timeout_untraced_internal_2_cond_init
    \/ wait_timeout_untraced_internal_3_create
    \/ wait_timeout_untraced_internal_3_lock
    \/ wait_timeout_untraced_internal_4_deadline
    \/ wait_timeout_untraced_internal_4_timedwait
    \/ wait_timeout_untraced_internal_4_return
    \/ wait_timeout_untraced_internal_3_unlock
    \/ wait_timeout_untraced_internal_3_cancel
    \/ wait_timeout_untraced_internal_3_join
    \/ wait_timeout_untraced_internal_3_result
    \/ wait_timeout_untraced_internal_2_cond_destroy
    \/ wait_timeout_untraced_internal_1_condattr_destroy
    \/ wait_timeout_untraced_mutex_destroy

Waiter ==
    \/ wait_for_process_waitid
    \/ wait_for_process_cancelled
    \/ wait_for_process_lock
    \/ wait_for_process_signal
    \/ wait_for_process_unlock

Next ==
    \/ Racer
    \/ Waiter
    \/ SpuriousWakeup
    \/ ProcExit
    \/ DeadlineElapses

Spec == Init /\ [][Next]_vars

\* Fair scheduling: a thread that can take a step eventually takes one, and
\* time does not stop.  Nothing makes the target process terminate, a
\* library call fail or a wait end spuriously.
FairSpec ==
    /\ Spec
    /\ WF_vars(Racer)
    /\ WF_vars(Waiter)
    /\ WF_vars(DeadlineElapses)

\* ------------------------------------------------------------- results
Done == rpc = "done"
Exited == Done /\ result = 0
TimedOut == Done /\ result = -1 /\ errno = ETIMEDOUT

TypeOK ==
    /\ pid_ok \in BOOLEAN
    /\ proc \in {"running", "zombie", "reaped"}
    /\ wpc \in {"none", "waitid", "lock", "signal", "unlock", "exited",
                "cancelled", "joined"}
    /\ mutex_owner \in {"none", "racer", "waiter"}
    /\ mutex_st \in {"uninit", "init", "destroyed"}
    /\ attr_st \in {"uninit", "init", "destroyed"}
    /\ cond_st \in {"uninit", "init", "destroyed"}
    /\ wake \in {0, ETIMEDOUT}
    /\ ret \in {-1, 0, ETIMEDOUT}
    /\ return_val \in {-1, 0}
    /\ result \in {-1, 0}

\* The call got past every setup step: primitives, thread, clock, deadline.
SetupOk == fail = "none"

\* --------------------------------------------------------------- claims
\* C1: if the target process has terminated before the deadline elapses
\* (also when it had terminated before the call), the call returns Exited
\* and never TimedOut.  Stated for the case most favourable to the code:
\* setup succeeded, the pid is a child, the timeout is not 0, and by the
\* time the deadline elapsed the Waiter had seen the termination, signalled
\* and returned.
C1_ExitedIfTerminatedBeforeDeadline ==
    (Done /\ SetupOk /\ pid_ok /\ timeout_ms > 0
          /\ proc_at_deadline = "zombie" /\ wpc_at_deadline = "exited")
        => (Exited /\ ~TimedOut)

\* C2: for every timeout, 0 included, if the target process is still
\* running when the deadline elapses and setup succeeded, the call returns
\* TimedOut (-1 with errno ETIMEDOUT), not Exited and not another error.
C2_TimedOutIfRunningAtDeadline ==
    (Done /\ SetupOk /\ pid_ok /\ proc_at_deadline = "running") => TimedOut

\* C3: on every exit path, when the call returns no Waiter thread is still
\* running or unjoined, the mutex is not held, and every primitive that was
\* initialised (mutex, condattr, condvar) has been destroyed.
C3_NothingOutlivesTheCall ==
    Done => /\ wpc \in {"none", "joined"}
            /\ mutex_owner = "none"
            /\ mutex_st # "init"
            /\ attr_st # "init"
            /\ cond_st # "init"

\* C3 witness: a call that timed out, cancelled its Waiter and returned.
C3_Witness ==
    /\ TimedOut
    /\ cancels = 1
    /\ wpc = "joined"
    /\ mutex_st = "destroyed" /\ attr_st = "destroyed" /\ cond_st = "destroyed"

\* C4: no step of the Racer or of the Waiter changes the target process:
\* the only change it ever undergoes is its own termination (running to
\* zombie), in a step that moves neither thread; a zombie stays a zombie.
C4_ProcessUntouched ==
    [][proc' # proc =>
          (proc = "running" /\ proc' = "zombie" /\ rpc' = rpc /\ wpc' = wpc)]_vars

\* C4 witness: the Waiter's waitid has returned for a terminated child, the
\* call has returned Exited, and the child is still a zombie.
C4_Witness == Exited /\ SetupOk /\ rv_writes = 1 /\ proc = "zombie"

\* C5: under fair scheduling every call eventually returns, even when the
\* target process never terminates.
C5_CallReturns == <>Done

\* C6: a deadline overflow is found before any Waiter thread is spawned.
C6_OverflowBeforeSpawn == fail = "overflow" => wpc = "none"

\* C7: when the clock read fails or the deadline overflows, the call
\* returns a failure: -1, never Exited (0), and not TimedOut.
C7_SetupFailureReturned ==
    (Done /\ fail \in {"clock", "overflow"}) => (result = -1 /\ ~TimedOut)

\* C8: when the Waiter's waitid fails (the pid is no child), the call
\* returns the Waiter's failure, -1, and not TimedOut.  Stated for the case
\* most favourable to the code: setup succeeded, the timeout is not 0, and
\* the Waiter had recorded the failure, signalled and returned by the time
\* the deadline elapsed.
C8_TargetWaitError ==
    (Done /\ SetupOk /\ ~pid_ok /\ timeout_ms > 0
          /\ wpc_at_deadline = "exited")
        => (result = -1 /\ ~TimedOut)

C10_NoSignalBeforeWait == rpc_at_signal \notin {"lock", "deadline", "timedwait"}

\* C11: the Racer reads return_val (line 134, the step that leaves "result"
\* with ret other than ETIMEDOUT) only after pthread_join has returned: the
\* Waiter is joined, and so can no longer run, at the read.
C11_ReadAfterJoin ==
    [][(rpc = "result" /\ rpc' # rpc /\ ret # ETIMEDOUT) => wpc = "joined"]_vars

\* C11 witness: the Racer has read the outcome the Waiter wrote, after the
\* join.
C11_Witness ==
    /\ rpc = "cond_destroy"
    /\ SetupOk /\ ret = 0
    /\ wpc = "joined" /\ rv_writes = 1
    /\ result = return_val

\* C12: whenever a Waiter thread was created, the condition variable and
\* then the mutex are destroyed only after the Waiter has been joined (the
\* condition variable first), and the Waiter takes no step (write, lock,
\* signal, unlock) once either primitive is destroyed.
C12_DestroyAfterJoin ==
    /\ [](cond_st = "destroyed" => wpc \in {"none", "joined"})
    /\ [](mutex_st = "destroyed" => (wpc \in {"none", "joined"} /\ cond_st # "init"))
    /\ [][(cond_st = "destroyed" \/ mutex_st = "destroyed") =>
            (wpc' = wpc /\ waiter_hist' = waiter_hist
                /\ return_val' = return_val /\ mutex_owner' = mutex_owner)]_vars

\* C12 witness: a Waiter was created and joined, and both primitives are
\* destroyed.
C12_Witness ==
    /\ wpc = "joined" /\ signals = 1
    /\ cond_st = "destroyed" /\ mutex_st = "destroyed"

\* C13: pthread_cancel is called at most once per call, by the Racer at
\* line 120, and only after its own timed wait returned ETIMEDOUT; on the
\* signalled path and on the failure paths (clock, overflow) no
\* cancellation is requested.
C13_CancelOnlyAfterTimeout ==
    /\ [](cancels <= 1)
    /\ []((cancels > 0 \/ cancel_req) =>
            (ret = ETIMEDOUT /\ wake = ETIMEDOUT /\ SetupOk /\ cancels = 1))
    /\ [][(cancels' # cancels \/ cancel_req' # cancel_req) =>
            (rpc = "cancel" /\ rpc' = "join" /\ ret = ETIMEDOUT)]_vars

\* C13 witness: the wait timed out and the Racer has cancelled a Waiter that
\* was still blocked in waitid.
C13_Witness == rpc = "join" /\ cancels = 1 /\ cancel_req /\ wpc = "waitid"

\* C14: cancellation never leaves the monitor partially updated.  A Waiter
\* is cancelled only inside waitid, holding no mutex and having written no
\* outcome and sent no signal; a Waiter that has passed waitid runs to
\* completion (write, lock, signal, unlock) even with a cancellation
\* request pending; the mutex is unlocked when the Racer destroys it.
C14_CancelLeavesMonitorWhole ==
    /\ [][(wpc' = "cancelled" /\ wpc # "cancelled") =>
            (wpc = "waitid" /\ cancel_req /\ mutex_owner # "waiter")]_vars
    /\ [](wpc = "cancelled" =>
            (rv_writes = 0 /\ signals = 0 /\ return_val = -1
                /\ mutex_owner # "waiter"))
    /\ [](wpc = "exited" => (rv_writes = 1 /\ signals = 1))
    /\ [](wpc = "joined" => rv_writes = signals)
    /\ []((rpc = "mutex_destroy" \/ mutex_st = "destroyed") =>
            mutex_owner = "none")
    /\ ((cancel_req /\ wpc \in {"lock", "signal", "unlock"})
            ~> (wpc \in {"exited", "joined"}))

\* C14 witness: the cancellation request races with a Waiter that is past
\* waitid and holds the mutex.
C14_Witness ==
    cancel_req /\ wpc = "signal" /\ mutex_owner = "waiter" /\ rv_writes = 1

\* C15: the result of a call that got past thread creation is decided by
\* how the Racer's wait ended (ret): after ETIMEDOUT it is TimedOut, also
\* when the Waiter completed successfully in the meantime; otherwise it is
\* the outcome the Waiter recorded (0 or -1), and not TimedOut.
C15_ResultFollowsWait ==
    (Done /\ wpc = "joined") =>
        IF ret = ETIMEDOUT
          THEN TimedOut
          ELSE /\ rv_writes = 1
               /\ result = return_val
               /\ result = (IF pid_ok THEN 0 ELSE -1)
               /\ ~TimedOut

\* C15 witness: the call returned TimedOut although the Waiter had recorded
\* success between the deadline and the cancellation.
C15_Witness == TimedOut /\ wpc = "joined" /\ rv_writes = 1 /\ return_val = 0

\* ------------------------------------------- the deadline step on its own
\* wait_timeout_untraced_internal_4 up to line 89, applied to a wider choice
\* of clock readings and timeouts than Spec tries.  (TLC's integers end at
\* 2^31 - 1, so the timeouts of the upper half of uint32_t are not tried.)
DeadlineTimeouts ==
    {0, 1, 647, 999, 1000, 1001, MaxTimeoutMs, 59999, 86400000, 2147483647}
DeadlineNowSecs ==
    {0, 1} \cup {get_max_time_t - k : k \in 0 .. (NearMax + 1)}
           \cup {get_max_time_t - 2147483, get_max_time_t - 2147484}
DeadlineNowNsecs ==
    {0, 1, 1000000, 353000000, 999000000, NSEC_PER_SEC - 1}

\* The state in which internal_3 calls internal_4 (line 111): the primitives
\* are initialised, the Waiter has been created and has not run yet, the
\* Racer holds the mutex.
InitDeadline ==
    /\ pid_ok \in BOOLEAN
    /\ proc \in {"running", "zombie"}
    /\ timeout_ms \in DeadlineTimeouts
    /\ now \in [tv_sec : DeadlineNowSecs, tv_nsec : DeadlineNowNsecs]
    /\ ts = [tv_sec |-> 0, tv_nsec |-> 0]
    /\ armed = FALSE
    /\ expired = FALSE
    /\ rpc = "deadline"
    /\ wpc = "waitid"
    /\ mutex_st = "init"
    /\ mutex_owner = "racer"
    /\ attr_st = "init"
    /\ cond_st = "init"
    /\ wake = 0
    /\ return_val = -1
    /\ ret = 0
    /\ result = 0
    /\ errno = 0
    /\ cancel_req = FALSE
    /\ fail = "none"
    /\ rv_writes = 0
    /\ signals = 0
    /\ rpc_at_signal = "unset"
    /\ cancels = 0
    /\ proc_at_deadline = "unset"
    /\ wpc_at_deadline = "unset"

NextDeadline == wait_timeout_untraced_internal_4_deadline

DeadlineSpec == InitDeadline /\ [][NextDeadline]_vars

\* C16: whenever the deadline computation does not overflow, the deadline
\* written to ts is the clock reading plus timeout_ms milliseconds exactly,
\* counted in nanoseconds; its tv_nsec lies in [0, 10^9) with the excess
\* carried into tv_sec; and a larger timeout gives a strictly later
\* deadline.
C16_DeadlineExact ==
    armed =>
        LET q     == timeout_ms \div MS_PER_SEC
            r     == timeout_ms % MS_PER_SEC
            carry == ts.tv_sec - now.tv_sec - q
        IN  /\ 0 <= ts.tv_nsec /\ ts.tv_nsec < NSEC_PER_SEC
            /\ carry \in {0, 1}
            /\ carry * NSEC_PER_SEC + ts.tv_nsec - now.tv_nsec
                   = r * NSEC_PER_MS
            /\ \A m \in DeadlineTimeouts :
                   m < timeout_ms =>
                       LET d == deadline(now, m)
                       IN  \/ d.tv_sec < ts.tv_sec
                           \/ d.tv_sec = ts.tv_sec /\ d.tv_nsec < ts.tv_nsec

\* C16 witness: a deadline whose nanoseconds wrapped past one second.
C16_Witness ==
    /\ armed
    /\ rpc = "timedwait"
    /\ timeout_ms > MS_PER_SEC
    /\ timeout_ms % MS_PER_SEC # 0
    /\ ts.tv_sec - now.tv_sec = timeout_ms \div MS_PER_SEC + 1
    /\ ts.tv_nsec < now.tv_nsec

\* C17: the deadline step rejects (returns -1, leaves ts unwritten, does not
\* reach the timed wait) exactly when the clock's seconds plus the
\* timeout's whole seconds plus the nanosecond carry exceed the largest
\* time_t, and accepts otherwise with a tv_sec that has not wrapped.
C17_OverflowExactlyRejected ==
    (rpc # "deadline" /\ fail # "clock") =>
        LET q       == timeout_ms \div MS_PER_SEC
            r       == timeout_ms % MS_PER_SEC
            carry   == IF now.tv_nsec + r * NSEC_PER_MS >= NSEC_PER_SEC
                       THEN 1 ELSE 0
            exceeds == q + carry > get_max_time_t - now.tv_sec
        IN  /\ (fail = "overflow") <=> exceeds
            /\ fail = "overflow" =>
                   /\ ret = -1
                   /\ ~armed
                   /\ ts = [tv_sec |-> 0, tv_nsec |-> 0]
                   /\ rpc = "unlock"
            /\ fail = "none" =>
                   /\ armed
                   /\ rpc = "timedwait"
                   /\ now.tv_sec <= ts.tv_sec
                   /\ ts.tv_sec <= get_max_time_t
                   /\ ts.tv_sec - now.tv_sec = q + carry

\* C17 witness: a rejection that only the nanosecond carry causes.
C17_Witness ==
    /\ fail = "overflow"
    /\ rpc = "unlock"
    /\ timeout_ms > 0
    /\ timeout_ms \div MS_PER_SEC = get_max_time_t - now.tv_sec

\* C18: the handshake cannot deadlock on the mutex.  The Racer holds the
\* mutex only between its lock (line 109) and its unlock (line 114), the
\* timed wait excepted, hence never while it cancels or joins; the Waiter
\* holds it only between lines 39 and 45; the two are never inside these
\* regions together; and a Waiter blocked in pthread_mutex_lock always
\* eventually acquires the mutex.
C18_MutexDeadlockFree ==
    /\ [](rpc \in {"cancel", "join"} => mutex_owner # "racer")
    /\ [](mutex_owner = "racer" <=> rpc \in {"deadline", "timedwait", "unlock"})
    /\ [](mutex_owner = "waiter" <=> wpc \in {"signal", "unlock"})
    /\ [](~(rpc \in {"deadline", "timedwait", "unlock"}
            /\ wpc \in {"signal", "unlock"}))
    /\ (wpc = "lock" ~> wpc = "signal")

\* C18 witness: the Waiter is blocked in pthread_mutex_lock while the Racer
\* holds the mutex.
C18_Witness == wpc = "lock" /\ mutex_owner = "racer" /\ rpc = "unlock"

\* C19: whenever the call returns 0 (Exited), the target is a child that
\* has terminated, and the 0 is what waitid returned to the Waiter.
C19_ExitedMeansTerminated ==
    Exited => (pid_ok /\ proc = "zombie" /\ rv_writes = 1 /\ return_val = 0)

\* C19 witness: a call that has returned 0 after a signalled wait.
C19_Witness ==
    Exited /\ proc = "zombie" /\ ret = 0 /\ rpc_at_signal = "cv_wait"

\* C20: whenever the Racer returns return_val (its wait did not end with
\* ETIMEDOUT), no cancellation was requested, the Waiter has written its
\* outcome once, signalled and been joined, and the value returned is the
\* one the Waiter wrote, not the -1 return_val was initialised with.
C20_ReturnedOutcomeIsWritten ==
    [][(rpc = "result" /\ rpc' # rpc /\ ret # ETIMEDOUT) =>
           /\ cancels = 0
           /\ ~cancel_req
           /\ wpc = "joined"
           /\ rv_writes = 1
           /\ signals = 1
           /\ return_val = (IF pid_ok THEN 0 ELSE -1)
           /\ result' = return_val]_vars

\* C20 witness: a -1 has been returned on the non-timeout path, and it is
\* the -1 the Waiter wrote.
C20_Witness ==
    /\ rpc = "cond_destroy"
    /\ ret # ETIMEDOUT
    /\ ~pid_ok
    /\ result = -1
    /\ rv_writes = 1
    /\ cancels = 0

=============================================================================
